---- MODULE Spec2Model ----
(***************************************************************************)
(* PresentationModel (mhcflurry/antigen_presentation/presentation_model.py) *)
(* as a state machine: one PresentationModel object `pm`, the operations    *)
(* called on it, `last`, the outcome of the most recent call, and `fitted`, *)
(* the call that completed a fit of pm ("no" while none has).               *)
(*                                                                          *)
(* Python's None is the empty tuple, a present value v is <<v>>.            *)
(* Probabilities are integers (an even number of units, so that the mean of *)
(* two of them is exact).                                                   *)
(***************************************************************************)
EXTENDS Integers, Sequences, FiniteSets, TLC

VARIABLES pm, last, fitted

vars == <<pm, last, fitted>>

(* ------------------------------ bounds -------------------------------- *)

\* longest hits table handed to fit
MaxRows == 3

\* longest list of component models handed to the constructor
MaxModels == 2

\* longest peptides table handed to predict and to the scoring operations
MaxX == 1

(* ------------------------------ values -------------------------------- *)

None == <<>>

Some(v) == <<v>>

Experiments == {"e1", "e2"}

\* peptides: hits carry "p", decoys carry "q"
Peptides == {"p", "q"}

\* the component models a caller can configure
Templates == {"A", "B", "C"}

\* ensemble_size as given to the constructor: None (the default) or an int
EnsembleSizes == {None, Some(0), Some(2)}

FeatureExprLists == {<<"b">>, <<"a", "b">>}

RequiredHitsColumns == {"experiment_name", "peptide"}

HitsColumnSets == {{"experiment_name", "peptide"}, {"peptide"}, {"experiment_name"}}

SeqsUpTo(S, n) == UNION {[1..k -> S] : k \in 0..n}

RECURSIVE SumSeq(_)
SumSeq(s) == IF s = <<>> THEN 0 ELSE Head(s) + SumSeq(Tail(s))

\* the rows of `rows` at the indices `idx`, in table order (DataFrame.iloc)
RECURSIVE ILoc(_, _, _)
ILoc(rows, idx, k) ==
    IF k > Len(rows) THEN <<>>
    ELSE (IF k \in idx THEN <<rows[k]>> ELSE <<>>) \o ILoc(rows, idx, k + 1)

(* ------------------- component model interface ------------------------ *)

\* PresentationComponentModel.column_names
column_names(t) ==
    CASE t = "A" -> {"a"}
      [] t = "B" -> {"b"}
      [] t = "C" -> {"a", "b"}

\* PresentationComponentModel.requires_fitting
requires_fitting(t) == t = "B"

\* an unfitted component model as handed to the constructor
Template(t) == [tmpl |-> t, fit |-> None, is_clone |-> FALSE]

\* PresentationComponentModel.clone_and_fit(hits_df): a fitted copy
clone_and_fit(cm, training_rows) ==
    [tmpl |-> cm.tmpl, fit |-> Some(training_rows), is_clone |-> TRUE]

\* PresentationComponentModel.get_fit
component_get_fit(cm) == cm.fit

\* PresentationComponentModel.clone_and_restore_fit(fit): a copy holding fit
clone_and_restore_fit(cm, sub_model_fit) ==
    [tmpl |-> cm.tmpl, fit |-> sub_model_fit, is_clone |-> TRUE]

PepVal(p) == IF p = "p" THEN 2 ELSE 1

ExpVal(e) == IF e = "e1" THEN 1 ELSE 2

\* number of rows of the training table of a fit from experiment e
SeenInFit(sub_model_fit, e) ==
    IF sub_model_fit = None THEN 0
    ELSE Cardinality({i \in 1..Len(sub_model_fit[1]) : sub_model_fit[1][i] = e})

\* PresentationComponentModel.predict for one row: column name -> value
component_predict(cm, row) ==
    CASE cm.tmpl = "A" ->
            [c \in {"a"} |-> PepVal(row.peptide) + ExpVal(row.experiment_name)]
      [] cm.tmpl = "B" ->
            [c \in {"b"} |->
                PepVal(row.peptide) * (1 + SeenInFit(cm.fit, row.experiment_name))]
      [] cm.tmpl = "C" ->
            [c \in {"a", "b"} |->
                IF c = "a" THEN PepVal(row.peptide)
                ELSE PepVal(row.peptide) + ExpVal(row.experiment_name)]

(* --------------------------- constructor ------------------------------ *)

\* the object before construction, and the shape of every model record
NoModel ==
    [constructed |-> FALSE,
     component_models |-> <<>>,
     component_models_require_fitting |-> FALSE,
     ensemble_size |-> None,
     feature_expressions |-> <<>>,
     decoy_strategy |-> None,
     trained_component_models |-> None,
     presentation_models_predictors |-> None,
     fit_experiments |-> None]

\* mutant of InitColumnsLoop: the columns seen so far are never recorded
\* (columns.update dropped)
RECURSIVE InitColumnsLoopNoUpdate(_, _, _, _)
InitColumnsLoopNoUpdate(component_models, k, columns, crf) ==
    IF k > Len(component_models) THEN [ok |-> TRUE, crf |-> crf]
    ELSE LET model_cols == column_names(component_models[k].tmpl) IN
         IF columns \cap model_cols # {}
         THEN [ok |-> FALSE, crf |-> crf]
         ELSE InitColumnsLoopNoUpdate(component_models, k + 1, columns,
                                      crf \/ requires_fitting(component_models[k].tmpl))

\* the loop of __init__: [ok, crf], ok false when the assertion fails
RECURSIVE InitColumnsLoop(_, _, _, _)
InitColumnsLoop(component_models, k, columns, crf) ==
    IF k > Len(component_models) THEN [ok |-> TRUE, crf |-> crf]
    ELSE LET model_cols == column_names(component_models[k].tmpl) IN
         IF columns \cap model_cols # {}
         THEN [ok |-> FALSE, crf |-> crf]
         ELSE InitColumnsLoop(component_models, k + 1, columns \cup model_cols,
                              crf \/ requires_fitting(component_models[k].tmpl))

\* PresentationModel.__init__: [error, model]
NewPresentationModel(component_models, feature_expressions, ensemble_size) ==
    LET r == InitColumnsLoop(component_models, 1, {}, FALSE) IN
    IF ~r.ok THEN [error |-> "AssertionError", model |-> NoModel]
    ELSE [error |-> "none",
          model |->
            [constructed |-> TRUE,
             component_models |-> component_models,
             component_models_require_fitting |-> r.crf,
             ensemble_size |-> ensemble_size,
             feature_expressions |-> feature_expressions,
             decoy_strategy |-> Some("decoy_strategy"),
             trained_component_models |-> None,
             presentation_models_predictors |-> None,
             fit_experiments |-> None]]

\* the has_been_fit property
has_been_fit(m) == m.fit_experiments # None

(* ------------------------ tables and decoys --------------------------- *)

HitRow(e) == [experiment_name |-> e, peptide |-> "p"]

\* the hits tables a caller hands to fit
HitsTables ==
    [columns : {RequiredHitsColumns},
     rows : SeqsUpTo({HitRow(e) : e \in Experiments}, MaxRows)]
    \cup [columns : HitsColumnSets \ {RequiredHitsColumns},
          rows : {<<HitRow("e1"), HitRow("e1")>>}]

\* the hits tables a caller hands to score_from_hits_and_decoy_strategy
ScoredHitsTables == {h \in HitsTables : Len(h.rows) <= MaxX + 1}

\* DecoyStrategy.decoys(hits_df): one decoy per hit, from the hit's experiment
decoys(hits_rows) ==
    [i \in 1..Len(hits_rows) |->
        [experiment_name |-> hits_rows[i].experiment_name, peptide |-> "q"]]

\* make_hits_and_decoys_df: the hits (hit = 1) followed by the decoys (hit = 0)
make_hits_and_decoys_df(hits_rows) ==
    [columns |-> {"experiment_name", "peptide", "hit"},
     rows |-> [i \in 1..Len(hits_rows) |->
                 [experiment_name |-> hits_rows[i].experiment_name,
                  peptide |-> hits_rows[i].peptide, hit |-> 1]]
              \o
              [i \in 1..Len(hits_rows) |->
                 [experiment_name |-> decoys(hits_rows)[i].experiment_name,
                  peptide |-> decoys(hits_rows)[i].peptide, hit |-> 0]]]

(* -------------------- feature expression evaluation ------------------- *)

\* the columns the component models `cms` write, later models overwriting
RECURSIVE PredictedColumns(_, _)
PredictedColumns(cms, k) ==
    IF k > Len(cms) THEN {}
    ELSE column_names(cms[k].tmpl) \cup PredictedColumns(cms, k + 1)

\* the value the component models `cms` leave in column c of `row`:
\* "for sub_model ...: for (col, values) in predictions.items(): df[col] = values"
RECURSIVE PredictedValue(_, _, _, _)
PredictedValue(cms, k, row, c) ==
    IF k = 0 THEN 0
    ELSE IF c \in column_names(cms[k].tmpl)
         THEN component_predict(cms[k], row)[c]
         ELSE PredictedValue(cms, k - 1, row, c)

\* the distinct expressions in first-occurrence order: result[expression] = series
RECURSIVE ResultColumns(_, _)
ResultColumns(exprs, k) ==
    IF k > Len(exprs) THEN <<>>
    ELSE (IF \E j \in 1..(k - 1) : exprs[j] = exprs[k] THEN <<>> ELSE <<exprs[k]>>)
         \o ResultColumns(exprs, k + 1)

\* a missing value (NaN) in a column; every present value is non-negative
Null == -1

\* mhcflurry.common.assert_no_null(series, message): passes iff no value is
\* missing
assert_no_null(values) == \A i \in 1..Len(values) : values[i] # Null

\* mhcflurry.common.drop_nulls_and_warn(df, ...): the rows kept, those without
\* a missing value, and whether a warning was logged
drop_nulls_and_warn(x) ==
    LET kept == {i \in 1..Len(x) : \A j \in 1..Len(x[i]) : x[i][j] # Null} IN
    [kept |-> kept, warned |-> kept # 1..Len(x)]

\* an expression is a column name, or "sqrt(a - 3)" over the column "a"
\* (numpy.sqrt, in scope of the eval): the column it reads
ExprColumn(expression) == IF expression = "sqrt(a - 3)" THEN "a" ELSE expression

\* the value of the expression where its column holds v; the square root of
\* a negative number is a missing value
ExprValue(expression, v) ==
    IF expression = "sqrt(a - 3)" THEN (IF v < 3 THEN Null ELSE v - 3) ELSE v

\* "values = eval(expression, numpy.__dict__, input_df)" on a table whose
\* numeric columns were written by `cms`
ExprSeries(expression, cms, rows) ==
    [i \in 1..Len(rows) |->
        ExprValue(expression,
                  PredictedValue(cms, Len(cms), rows[i], ExprColumn(expression)))]

\* the table evaluate_expressions returns, row by row, `out` its column keys
ResultTable(out, cms, rows) ==
    [i \in 1..Len(rows) |->
        [j \in 1..Len(out) |-> ExprSeries(out[j], cms, rows)[i]]]

\* the loop of evaluate_expressions from expression k on, [error, x,
\* expression]: the first failure, a NameError for a name no column has, or the
\* assertion of assert_no_null, whose message is the expression; else the
\* result table x
RECURSIVE EvalLoop(_, _, _, _, _)
EvalLoop(feature_expressions, cols, cms, rows, k) ==
    IF k > Len(feature_expressions)
    THEN [error |-> "none",
          x |-> ResultTable(ResultColumns(feature_expressions, 1), cms, rows),
          expression |-> None]
    ELSE IF ExprColumn(feature_expressions[k]) \notin cols
    THEN [error |-> "NameError", x |-> <<>>, expression |-> None]
    ELSE IF ~assert_no_null(ExprSeries(feature_expressions[k], cms, rows))
    THEN [error |-> "AssertionError", x |-> <<>>,
          expression |-> Some(feature_expressions[k])]
    ELSE EvalLoop(feature_expressions, cols, cms, rows, k + 1)

\* evaluate_expressions on a table whose numeric columns `cols` were written by
\* `cms`: [error, x, expression], x the result table row by row, expression
\* the one a failed assertion names
evaluate_expressions(feature_expressions, cols, cms, rows) ==
    EvalLoop(feature_expressions, cols, cms, rows, 1)

(* --------------------------- final predictor -------------------------- *)

\* clone(self.predictor).fit(x, y): coefficient j is the sum over the rows of
\* x[j], counted positive for a hit and negative for a decoy
RECURSIVE Coef(_, _, _, _)
Coef(x, y, j, i) ==
    IF i = 0 THEN 0
    ELSE (IF y[i] = 1 THEN x[i][j] ELSE 0 - x[i][j]) + Coef(x, y, j, i - 1)

\* is_clone: the object fit is a clone of the configured predictor
predictor_fit(x, y) ==
    [coef |-> [j \in 1..Len(x[1]) |-> Coef(x, y, j, Len(x))], is_clone |-> TRUE]

\* predictor.predict_proba(x)[:, 1] for one row
predict_proba(predictor, xrow) ==
    2 * SumSeq([j \in 1..Len(xrow) |-> predictor.coef[j] * xrow[j]])

\* "final_predictor = clone(self.predictor); final_predictor.fit(x, y)":
\* [error, predictor, fitted, rows, warned], fitted the number of
\* final_predictor.fit calls made, rows the number of rows fit on
fit_cloned_predictor(x, y, warned) ==
    IF Len(x) = 0
    THEN [error |-> "ValueError", predictor |-> None, fitted |-> 1,
          rows |-> 0, warned |-> warned]
    ELSE [error |-> "none", predictor |-> Some(predictor_fit(x, y)), fitted |-> 1,
          rows |-> Len(x), warned |-> warned]

\* make_features_and_target from the evaluated expressions df on: the hit
\* column is attached, rows with a missing value are dropped with a warning,
\* and (x, y) go to the predictor
make_features_and_target(df, hit) ==
    IF df.error # "none"
    THEN [error |-> df.error, predictor |-> None, fitted |-> 0,
          rows |-> 0, warned |-> FALSE]
    ELSE fit_cloned_predictor(ILoc(df.x, drop_nulls_and_warn(df.x).kept, 1),
                              ILoc(hit, drop_nulls_and_warn(df.x).kept, 1),
                              drop_nulls_and_warn(df.x).warned)

\* fit_final_predictor once hits_and_decoys_df is made: the component models
\* predict, the expressions are evaluated, the predictor is fit
fit_on_hits_and_decoys(m, component_models, rows) ==
    make_features_and_target(
        evaluate_expressions(m.feature_expressions,
                             PredictedColumns(component_models, 1),
                             component_models, rows),
        [i \in 1..Len(rows) |-> rows[i].hit])

\* fit_final_predictor: [error, predictor, fitted, rows, warned]; warned
\* whether drop_nulls_and_warn logged dropped rows
fit_final_predictor(m, hits_rows, component_models) ==
    IF m.decoy_strategy = None
    THEN [error |-> "AttributeError", predictor |-> None, fitted |-> 0,
          rows |-> 0, warned |-> FALSE]
    ELSE fit_on_hits_and_decoys(m, component_models,
                                make_hits_and_decoys_df(hits_rows).rows)

(* ---------------------- stratified two-fold split --------------------- *)

RowsOf(rows, e) == {i \in 1..Len(rows) : rows[i].experiment_name = e}

\* hits_df.experiment_name.unique(): the classes of the stratified split
ExperimentsOf(rows) == {rows[i].experiment_name : i \in 1..Len(rows)}

\* StratifiedKFold(n_splits=2, shuffle=True).split(hits_df, experiment_name):
\* the possible test sets of the first split. Each experiment's rows are
\* halved (sizes differing by at most one); the split raises ValueError when
\* no experiment has two rows.
FirstTestSets(rows) ==
    {S \in SUBSET (1..Len(rows)) :
        \A e \in ExperimentsOf(rows) :
            LET n == Cardinality(RowsOf(rows, e))
                k == Cardinality(S \cap RowsOf(rows, e))
            IN  k = n \div 2 \/ k = (n + 1) \div 2}

SplitRaises(rows) ==
    \A e \in ExperimentsOf(rows) : Cardinality(RowsOf(rows, e)) < 2

\* mutant of Splits: the component models are trained on every row
SplitsTrainOnAll(rows, S) ==
    <<[fold1 |-> 1..Len(rows), fold2 |-> S],
      [fold1 |-> 1..Len(rows), fold2 |-> (1..Len(rows)) \ S]>>

\* the (train, test) index pairs of the two splits, given the first test set
Splits(rows, S) ==
    <<[fold1 |-> (1..Len(rows)) \ S, fold2 |-> S],
      [fold1 |-> S, fold2 |-> (1..Len(rows)) \ S]>>

(* -------------------------------- fit --------------------------------- *)

\* what a call did to its collaborators: the fold and the hit rows (indices
\* into hits_df) of every clone_and_fit call and of every
\* decoy_strategy.decoys call, and the number of final_predictor.fit calls
NoCalls == [clone_and_fit |-> <<>>, decoys |-> <<>>, predictor_fit |-> 0]

\* "if self.ensemble_size" / "not self.ensemble_size": None and 0 are false
Truthy(ensemble_size) == ensemble_size # None /\ ensemble_size[1] # 0

\* mutant of trained_sub_models: the configured instances are fit in place
sub_models_fit_in_place(component_models, training_rows) ==
    [i \in 1..Len(component_models) |->
        [tmpl |-> component_models[i].tmpl, fit |-> Some(training_rows),
         is_clone |-> FALSE]]

\* "for sub_model in self.component_models: sub_model =
\* sub_model.clone_and_fit(model_input_training_hits_df)": the fold's list
trained_sub_models(component_models, training_rows) ==
    [i \in 1..Len(component_models) |->
        clone_and_fit(component_models[i], training_rows)]

\* the loop "for (fold1, fold2) in cv.split(...)" from iteration k on
RECURSIVE TwoFoldLoop(_, _, _, _, _)
TwoFoldLoop(m, calls, hits_rows, splits, k) ==
    IF k > Len(splits) THEN [error |-> "none", model |-> m, calls |-> calls]
    ELSE
    LET fold1 == splits[k].fold1
        fold2 == splits[k].fold2
    IN
    IF fold1 = {} \/ fold2 = {}
    THEN [error |-> "AssertionError", model |-> m, calls |-> calls]
    ELSE
    LET model_input_training_hits == ILoc(hits_rows, fold1, 1)
        tcm == m.trained_component_models[1]
        trained == trained_sub_models(
                      m.component_models,
                      [j \in 1..Len(model_input_training_hits) |->
                          model_input_training_hits[j].experiment_name])
        m2 == [m EXCEPT !.trained_component_models = Some(Append(tcm, trained))]
        r == fit_final_predictor(m2, ILoc(hits_rows, fold2, 1), trained)
        calls2 == [clone_and_fit |->
                      calls.clone_and_fit \o
                      [i \in 1..Len(m.component_models) |->
                          [fold |-> k, rows |-> fold1]],
                   decoys |-> Append(calls.decoys, [fold |-> k, rows |-> fold2]),
                   predictor_fit |-> calls.predictor_fit + r.fitted]
    IN
    IF r.error # "none"
    THEN [error |-> r.error, model |-> m2, calls |-> calls2]
    ELSE TwoFoldLoop(
            [m2 EXCEPT !.presentation_models_predictors =
                          Some(Append(@[1], r.predictor[1]))],
            calls2, hits_rows, splits, k + 1)

\* mutant of FitEpilogue: the decoy strategy is kept
FitEpilogueKeepsDecoys(m, calls) ==
    IF Len(m.presentation_models_predictors[1]) # Len(m.trained_component_models[1])
    THEN [error |-> "AssertionError", model |-> m, calls |-> calls]
    ELSE [error |-> "none", model |-> m, calls |-> calls]

\* the end of fit: the length assertion, then the decoy strategy is dropped
FitEpilogue(m, calls) ==
    IF Len(m.presentation_models_predictors[1]) # Len(m.trained_component_models[1])
    THEN [error |-> "AssertionError", model |-> m, calls |-> calls]
    ELSE [error |-> "none", model |-> [m EXCEPT !.decoy_strategy = None],
          calls |-> calls]

\* PresentationModel.fit(hits_df): [error, model, calls]. S is the test set
\* the shuffled split draws first.
fit(m, hits_df, S) ==
    IF has_been_fit(m)
    THEN [error |-> "AssertionError", model |-> m, calls |-> NoCalls]
    ELSE IF "experiment_name" \notin hits_df.columns
    THEN [error |-> "AssertionError", model |-> m, calls |-> NoCalls]
    ELSE IF "peptide" \notin hits_df.columns
    THEN [error |-> "AssertionError", model |-> m, calls |-> NoCalls]
    ELSE IF m.trained_component_models # None
    THEN [error |-> "AssertionError", model |-> m, calls |-> NoCalls]
    ELSE IF m.presentation_models_predictors # None
    THEN [error |-> "AssertionError", model |-> m, calls |-> NoCalls]
    ELSE
    LET rows == hits_df.rows
        m1 == [m EXCEPT !.fit_experiments =
                  Some({rows[i].experiment_name : i \in 1..Len(rows)})]
    IN
    IF m.component_models_require_fitting /\ ~Truthy(m.ensemble_size)
    THEN LET m2 == [m1 EXCEPT !.trained_component_models = Some(<<>>),
                              !.presentation_models_predictors = Some(<<>>)]
         IN  IF SplitRaises(rows)
             THEN [error |-> "ValueError", model |-> m2, calls |-> NoCalls]
             ELSE LET r == TwoFoldLoop(m2, NoCalls, rows, Splits(rows, S), 1)
                  IN  IF r.error # "none" THEN r
                      ELSE FitEpilogue(r.model, r.calls)
    ELSE IF m.component_models_require_fitting
    THEN [error |-> "NotImplementedError", model |-> m1, calls |-> NoCalls]
    ELSE LET r == fit_final_predictor(m1, rows, m1.component_models)
             calls == [clone_and_fit |-> <<>>,
                       decoys |-> <<[fold |-> 1, rows |-> 1..Len(rows)]>>,
                       predictor_fit |-> r.fitted]
         IN  IF r.error # "none"
             THEN [error |-> r.error, model |-> m1, calls |-> calls]
             ELSE FitEpilogue(
                     [m1 EXCEPT !.presentation_models_predictors =
                                   Some(<<r.predictor[1]>>),
                                !.trained_component_models =
                                   Some(<<m1.component_models>>)],
                     calls)

(* ------------------------ get_fit / restore_fit ----------------------- *)

\* PresentationModel.get_fit: [error, value]
get_fit(m) ==
    IF ~has_been_fit(m) THEN [error |-> "AssertionError", value |-> None]
    ELSE IF m.trained_component_models = None
    THEN [error |-> "TypeError", value |-> None]
    ELSE [error |-> "none",
          value |-> Some(
            [trained_component_model_fits |->
                [k \in 1..Len(m.trained_component_models[1]) |->
                    [i \in 1..Len(m.trained_component_models[1][k]) |->
                        component_get_fit(m.trained_component_models[1][k][i])]],
             presentation_models_predictors |-> m.presentation_models_predictors,
             fit_experiments |-> m.fit_experiments,
             feature_expressions |-> m.feature_expressions])]

Min(a, b) == IF a < b THEN a ELSE b

\* mutant of ExpectedFolds: one fold is expected of every artifact
ExpectedFoldsOne(m) == 1

\* the fold count restore_fit expects of the artifact
ExpectedFolds(m) == IF m.component_models_require_fitting THEN 2 ELSE 1

\* mutant of feature_expressions_differ: the mismatch is never noticed
feature_expressions_never_differ(m, fit_artifact) == FALSE

\* "if feature_expressions != self.feature_expressions: logging.warn(...)"
feature_expressions_differ(m, fit_artifact) ==
    fit_artifact.feature_expressions # m.feature_expressions

\* mutant of restored_component_models: every fold is restored from the first
\* fold's fits
restored_from_first_fold(m, model_input_fits) ==
    [k \in 1..Len(model_input_fits) |->
        [i \in 1..Min(Len(m.component_models), Len(model_input_fits[1])) |->
            clone_and_restore_fit(m.component_models[i], model_input_fits[1][i])]]

\* the loop of restore_fit: per fold, a clone of each configured component
\* model holding the fold's fit, zip stopping at the shorter list
restored_component_models(m, model_input_fits) ==
    [k \in 1..Len(model_input_fits) |->
        [i \in 1..Min(Len(m.component_models), Len(model_input_fits[k])) |->
            clone_and_restore_fit(m.component_models[i], model_input_fits[k][i])]]

\* restore_fit after its leading assertion
restore_fit_body(m, fit_artifact, unhandled) ==
    LET m1 == [m EXCEPT
                 !.presentation_models_predictors =
                     fit_artifact.presentation_models_predictors,
                 !.fit_experiments = fit_artifact.fit_experiments]
        model_input_fits == fit_artifact.trained_component_model_fits
        warned == feature_expressions_differ(m, fit_artifact)
    IN
    IF unhandled
    THEN [error |-> "AssertionError", model |-> m1, warned |-> warned]
    ELSE IF Len(model_input_fits) # ExpectedFolds(m)
    THEN [error |-> "AssertionError", model |-> m1, warned |-> warned]
    ELSE [error |-> "none",
          model |-> [m1 EXCEPT !.trained_component_models =
                        Some(restored_component_models(m, model_input_fits))],
          warned |-> warned]

\* mutant of restore_fit: "assert not self.has_been_fit" dropped
restore_fit_unguarded(m, fit_artifact, unhandled) ==
    restore_fit_body(m, fit_artifact, unhandled)

\* PresentationModel.restore_fit(fit): [error, model, warned]. unhandled: the
\* artifact carries a key restore_fit does not pop.
restore_fit(m, fit_artifact, unhandled) ==
    IF has_been_fit(m)
    THEN [error |-> "AssertionError", model |-> m, warned |-> FALSE]
    ELSE restore_fit_body(m, fit_artifact, unhandled)

(* ------------------------------ predict ------------------------------- *)

\* labelled rows: a hit carries peptide "p", any other row peptide "q"
PeptideRows ==
    {[experiment_name |-> e, peptide |-> IF h = 1 THEN "p" ELSE "q", hit |-> h] :
        e \in Experiments, h \in {0, 1}}

AllPeptidesColumns == {"experiment_name", "peptide", "hit"}

PeptidesColumnSets ==
    {{"experiment_name", "peptide", "hit"}, {"experiment_name", "peptide"},
     {"peptide", "hit"}, {"experiment_name", "hit"}}

\* the tables a caller hands to predict and to the scoring operations
PeptidesTables ==
    [columns : {AllPeptidesColumns}, rows : SeqsUpTo(PeptideRows, MaxX)]
    \cup [columns : PeptidesColumnSets \ {AllPeptidesColumns},
          rows : {<<[experiment_name |-> "e1", peptide |-> "p", hit |-> 1]>>}]

\* mutant of MeanColumns: the first predictor's column is returned
FirstColumnOnly(cols) == cols[1]

\* numpy.mean(columns, axis=0)
MeanColumns(cols) ==
    [i \in 1..Len(cols[1]) |->
        SumSeq([k \in 1..Len(cols) |-> cols[k][i]]) \div Len(cols)]

\* the loop of predict_to_df over zip(trained_component_models, predictors),
\* from pair k on: [error, cols], one prediction column per pair
RECURSIVE PredictLoop(_, _, _, _)
PredictLoop(m, rows, k, cols) ==
    IF k > Len(m.trained_component_models[1])
    THEN [error |-> "none", cols |-> cols]
    ELSE
    LET component_models == m.trained_component_models[1][k]
        presentation_model_predictor == m.presentation_models_predictors[1][k]
        ev == evaluate_expressions(
                  m.feature_expressions,
                  PredictedColumns(component_models, 1), component_models, rows)
    IN
    IF ev.error # "none" THEN [error |-> ev.error, cols |-> cols]
    ELSE IF Len(rows) = 0
            \/ Len(ResultColumns(m.feature_expressions, 1))
                 # Len(presentation_model_predictor.coef)
    THEN [error |-> "ValueError", cols |-> cols]
    ELSE PredictLoop(m, rows, k + 1,
            Append(cols, [i \in 1..Len(rows) |->
                            predict_proba(presentation_model_predictor, ev.x[i])]))

\* PresentationModel.predict_to_df: [error, df]; df.Prediction is the final
\* column, df.models the per-pair columns kept beside it
predict_to_df(m, peptides_df) ==
    LET NoDf == [Prediction |-> <<>>, models |-> <<>>] IN
    IF ~has_been_fit(m) THEN [error |-> "AssertionError", df |-> NoDf]
    ELSE IF "experiment_name" \notin peptides_df.columns
    THEN [error |-> "AssertionError", df |-> NoDf]
    ELSE IF "peptide" \notin peptides_df.columns
    THEN [error |-> "AssertionError", df |-> NoDf]
    ELSE IF m.presentation_models_predictors = None
            \/ m.trained_component_models = None
    THEN [error |-> "TypeError", df |-> NoDf]
    ELSE IF Len(m.presentation_models_predictors[1])
              # Len(m.trained_component_models[1])
    THEN [error |-> "AssertionError", df |-> NoDf]
    ELSE
    LET r == PredictLoop(m, peptides_df.rows, 1, <<>>) IN
    IF r.error # "none" THEN [error |-> r.error, df |-> NoDf]
    ELSE IF Len(r.cols) = 1
    THEN [error |-> "none", df |-> [Prediction |-> r.cols[1], models |-> <<>>]]
    ELSE IF Len(r.cols) = 0
    THEN [error |-> "ValueError", df |-> NoDf]
    ELSE [error |-> "none",
          df |-> [Prediction |-> MeanColumns(r.cols), models |-> r.cols]]

\* PresentationModel.predict: [error, value]
predict(m, peptides_df) ==
    IF ~has_been_fit(m) THEN [error |-> "AssertionError", value |-> <<>>]
    ELSE LET r == predict_to_df(m, peptides_df) IN
         [error |-> r.error, value |-> r.df.Prediction]

(* ------------------------------ scoring ------------------------------- *)

\* mutant of Rank2: ranks by ascending prediction
RankAscending2(prediction, i) ==
    2 * Cardinality({j \in 1..Len(prediction) : prediction[j] < prediction[i]})
    + Cardinality({j \in 1..Len(prediction) : prediction[j] = prediction[i]}) + 1

\* twice the rank of row i by descending prediction, ties sharing the average
\* rank: Series.rank(ascending=False)
Rank2(prediction, i) ==
    2 * Cardinality({j \in 1..Len(prediction) : prediction[j] > prediction[i]})
    + Cardinality({j \in 1..Len(prediction) : prediction[j] = prediction[i]}) + 1

\* the rows nlargest(n, "prediction") keeps: the n largest, the earlier row
\* first among equals
NLargest(prediction, n) ==
    {i \in 1..Len(prediction) :
        Cardinality({j \in 1..Len(prediction) :
                        prediction[j] > prediction[i]
                        \/ (prediction[j] = prediction[i] /\ j < i)}) < n}

NoScore == [nan |-> FALSE, num |-> 0, den |-> 1]

\* PresentationModel.score_from_peptides_df: [error, value]; the score is the
\* fraction num/den, or nan when there is no hit to divide by; hit_indices
\* holds twice each rank
score_from_peptides_df(m, peptides_df, include_hit_indices) ==
    LET NoResult == [score |-> NoScore, hit_indices |-> <<>>, total_peptides |-> 0]
    IN
    IF ~has_been_fit(m) THEN [error |-> "AssertionError", value |-> NoResult]
    ELSE IF "peptide" \notin peptides_df.columns
    THEN [error |-> "AssertionError", value |-> NoResult]
    ELSE IF "experiment_name" \notin peptides_df.columns
    THEN [error |-> "AssertionError", value |-> NoResult]
    ELSE IF "hit" \notin peptides_df.columns
    THEN [error |-> "AssertionError", value |-> NoResult]
    ELSE
    LET p == predict(m, peptides_df)
        rows == peptides_df.rows
        hits == {i \in 1..Len(rows) : rows[i].hit > 0}
        top_n == SumSeq([i \in 1..Len(rows) |-> rows[i].hit])
    IN
    IF p.error # "none" THEN [error |-> p.error, value |-> NoResult]
    ELSE IF ~include_hit_indices
    THEN LET top == NLargest(p.value, top_n) IN
         [error |-> "none",
          value |-> [score |-> IF top = {} THEN [nan |-> TRUE, num |-> 0, den |-> 1]
                               ELSE [nan |-> FALSE,
                                     num |-> Cardinality(top \cap hits),
                                     den |-> Cardinality(top)],
                     hit_indices |-> <<>>, total_peptides |-> 0]]
    ELSE LET hit_indices ==
                 SortSeq(ILoc([i \in 1..Len(rows) |-> Rank2(p.value, i)], hits, 1),
                         LAMBDA a, b : a < b)
             within == Cardinality({k \in 1..Len(hit_indices) :
                                        hit_indices[k] <= 2 * top_n})
         IN
         [error |-> "none",
          value |-> [score |-> IF top_n = 0 THEN [nan |-> TRUE, num |-> 0, den |-> 1]
                               ELSE [nan |-> FALSE, num |-> within, den |-> top_n],
                     hit_indices |-> hit_indices,
                     total_peptides |-> Len(rows)]]

\* PresentationModel.score_from_hits_and_decoy_strategy: [error, value]
score_from_hits_and_decoy_strategy(m, hits_df) ==
    IF ~has_been_fit(m)
    THEN [error |-> "AssertionError",
          value |-> [score |-> NoScore, hit_indices |-> <<>>, total_peptides |-> 0]]
    ELSE score_from_peptides_df(
            m,
            [columns |-> hits_df.columns \cup {"hit"},
             rows |-> make_hits_and_decoys_df(hits_df.rows).rows],
            TRUE)

(* ------------------------- callers' inputs ---------------------------- *)

\* the first test sets cv.split can draw in pm.fit(hits_df); {} stands for
\* the calls that never reach the split
DrawnTestSets(m, rows) ==
    IF ~has_been_fit(m) /\ m.component_models_require_fitting
       /\ ~Truthy(m.ensemble_size) /\ ~SplitRaises(rows)
    THEN FirstTestSets(rows) ELSE {{}}

\* the lists of component models a caller hands to the constructor
ComponentModelLists ==
    {[k \in DOMAIN ts |-> Template(ts[k])] : ts \in SeqsUpTo(Templates, MaxModels)}

\* another PresentationModel object after construction and one call of fit:
\* the objects whose get_fit() value a caller can hand to restore_fit
DonorModels ==
    UNION {{fit(NewPresentationModel(c, fe, es).model, h, S).model :
               S \in DrawnTestSets(NewPresentationModel(c, fe, es).model, h.rows)} :
        c \in {c \in ComponentModelLists : InitColumnsLoop(c, 1, {}, FALSE).ok},
        fe \in FeatureExprLists, es \in EnsembleSizes, h \in HitsTables}

\* the fit artifacts get_fit() returns on those objects
Artifacts ==
    {get_fit(d).value[1] : d \in {d \in DonorModels : get_fit(d).error = "none"}}

(* ------------------------------ actions ------------------------------- *)

Outcome(error) == IF error = "none" THEN "ok" ELSE error

\* the record of a call: arg is the argument when the call read it (a call
\* that the leading has_been_fit assertion rejects never does)
Call(op, error, arg, warned, calls) ==
    [op |-> op, outcome |-> Outcome(error), arg |-> arg,
     warned |-> warned, calls |-> calls]

Init ==
    /\ pm = NoModel
    /\ last = Call("none", "none", None, FALSE, NoCalls)
    /\ fitted = "no"

\* pm = PresentationModel(component_models, feature_expressions, decoy_strategy,
\*                        ensemble_size=ensemble_size)
Construct ==
    /\ ~pm.constructed
    /\ \E c \in ComponentModelLists, fe \in FeatureExprLists, es \in EnsembleSizes :
          LET r == NewPresentationModel(c, fe, es) IN
          /\ pm' = r.model
          /\ last' = Call("__init__", r.error, Some(c), FALSE, NoCalls)
    /\ UNCHANGED fitted

\* the arguments tried on m: every one while m is unfit; on a fit model the
\* call stops at "assert not self.has_been_fit" before it reads its argument,
\* and one argument stands for all
TriedHitsTables(m) ==
    IF has_been_fit(m)
    THEN {[columns |-> RequiredHitsColumns, rows |-> <<HitRow("e1"), HitRow("e1")>>]}
    ELSE HitsTables

TriedArtifacts(m) ==
    IF has_been_fit(m) THEN {CHOOSE a \in Artifacts : TRUE} ELSE Artifacts

\* pm.fit(hits_df)
Fit ==
    /\ pm.constructed
    /\ \E hits_df \in TriedHitsTables(pm) :
       \E S \in DrawnTestSets(pm, hits_df.rows) :
          LET r == fit(pm, hits_df, S) IN
          /\ pm' = r.model
          /\ last' = Call("fit", r.error,
                          IF has_been_fit(pm) THEN None ELSE Some(hits_df),
                          FALSE, r.calls)
          /\ fitted' = IF r.error = "none" THEN "fit" ELSE fitted

\* pm.restore_fit(fit)
RestoreFit ==
    /\ pm.constructed
    /\ \E fit_artifact \in TriedArtifacts(pm), unhandled \in BOOLEAN :
          LET r == restore_fit(pm, fit_artifact, unhandled) IN
          /\ pm' = r.model
          /\ last' = Call("restore_fit", r.error,
                          IF has_been_fit(pm) THEN None
                          ELSE Some([fit |-> fit_artifact, unhandled |-> unhandled]),
                          r.warned, NoCalls)
          /\ fitted' = IF r.error = "none" THEN "restore_fit" ELSE fitted

\* pm.get_fit()
GetFit ==
    /\ pm.constructed
    /\ last' = Call("get_fit", get_fit(pm).error, None, FALSE, NoCalls)
    /\ UNCHANGED <<pm, fitted>>

\* pm.predict(peptides_df)
Predict ==
    /\ pm.constructed
    /\ \E peptides_df \in PeptidesTables :
          last' = Call("predict", predict(pm, peptides_df).error,
                       None, FALSE, NoCalls)
    /\ UNCHANGED <<pm, fitted>>

\* pm.predict_to_df(peptides_df)
PredictToDf ==
    /\ pm.constructed
    /\ \E peptides_df \in PeptidesTables :
          last' = Call("predict_to_df", predict_to_df(pm, peptides_df).error,
                       None, FALSE, NoCalls)
    /\ UNCHANGED <<pm, fitted>>

\* pm.score_from_peptides_df(peptides_df, include_hit_indices)
ScoreFromPeptidesDf ==
    /\ pm.constructed
    /\ \E peptides_df \in PeptidesTables, include_hit_indices \in BOOLEAN :
          last' = Call("score_from_peptides_df",
                       score_from_peptides_df(pm, peptides_df,
                                              include_hit_indices).error,
                       None, FALSE, NoCalls)
    /\ UNCHANGED <<pm, fitted>>

\* pm.score_from_hits_and_decoy_strategy(hits_df, decoy_strategy)
ScoreFromHitsAndDecoyStrategy ==
    /\ pm.constructed
    /\ \E hits_df \in ScoredHitsTables :
          last' = Call("score_from_hits_and_decoy_strategy",
                       score_from_hits_and_decoy_strategy(pm, hits_df).error,
                       None, FALSE, NoCalls)
    /\ UNCHANGED <<pm, fitted>>

Next ==
    \/ Construct
    \/ Fit
    \/ RestoreFit
    \/ GetFit
    \/ Predict
    \/ PredictToDf
    \/ ScoreFromPeptidesDf
    \/ ScoreFromHitsAndDecoyStrategy

Spec == Init /\ [][Next]_vars

(* ------------- score_from_peptides_df on labelled tables -------------- *)

\* longest labelled table handed to score_from_peptides_df
MaxScored == 3

\* labelled rows: any peptide of any experiment, a hit or not
ScoreRows == [experiment_name : Experiments, peptide : Peptides, hit : {0, 1}]

ScoreTables ==
    [columns : {AllPeptidesColumns}, rows : SeqsUpTo(ScoreRows, MaxScored)]

\* the hits the scored models were fit on
ScoreFitHits ==
    [columns |-> RequiredHitsColumns,
     rows |-> <<HitRow("e1"), HitRow("e1"), HitRow("e2")>>]

\* fit models: pm after PresentationModel(...) and a fit that completed, one
\* single-fold configuration and one two-fold configuration
ScoreModels ==
    {d \in UNION {{fit(NewPresentationModel(c, fe, None).model, ScoreFitHits, S).model :
                      S \in DrawnTestSets(NewPresentationModel(c, fe, None).model,
                                          ScoreFitHits.rows)} :
                  c \in {<<Template("C")>>, <<Template("A"), Template("B")>>},
                  fe \in FeatureExprLists} :
        d.decoy_strategy = None}

\* the record of a scoring call: its arguments and the dict it returned
ScoreCall(op, error, arg, value) ==
    [op |-> op, outcome |-> Outcome(error), arg |-> arg, value |-> value,
     warned |-> FALSE, calls |-> NoCalls]

\* a fit model and the arguments of the call about to be made on it
ScoreInit ==
    /\ pm \in ScoreModels
    /\ \E peptides_df \in ScoreTables, include_hit_indices \in BOOLEAN :
          last = ScoreCall("none", "none",
                           Some([peptides_df |-> peptides_df,
                                 include_hit_indices |-> include_hit_indices]),
                           None)
    /\ fitted = "fit"

\* pm.score_from_peptides_df(peptides_df, include_hit_indices) on a fit model
ScoreLabelled ==
    /\ last.op = "none"
    /\ LET r == score_from_peptides_df(pm, last.arg[1].peptides_df,
                                       last.arg[1].include_hit_indices) IN
       last' = ScoreCall("score_from_peptides_df", r.error, last.arg, Some(r.value))
    /\ UNCHANGED <<pm, fitted>>

ScoreNext == ScoreLabelled

ScoreSpec == ScoreInit /\ [][ScoreNext]_vars

(* ------------- two-fold fit of hits of several experiments ------------ *)

\* longest hits table handed to the two-fold fit
MaxSplitRows == 4

SplitExperiments == {"e1", "e2", "e3", "e4"}

SplitHitsTables ==
    [columns : {RequiredHitsColumns},
     rows : SeqsUpTo({HitRow(e) : e \in SplitExperiments}, MaxSplitRows)]

\* unfit models whose fit takes the two-fold path
SplitModels ==
    {NewPresentationModel(<<Template("B")>>, <<"b">>, None).model,
     NewPresentationModel(<<Template("A"), Template("B")>>, <<"a", "b">>, None).model}

\* a constructed model and the hits table about to be handed to fit
SplitInit ==
    /\ pm \in SplitModels
    /\ \E hits_df \in SplitHitsTables :
          last = Call("none", "none", Some(hits_df), FALSE, NoCalls)
    /\ fitted = "no"

\* pm.fit(hits_df), the split drawing any of its possible first test sets
SplitFit ==
    /\ last.op = "none"
    /\ \E S \in DrawnTestSets(pm, last.arg[1].rows) :
          LET r == fit(pm, last.arg[1], S) IN
          /\ pm' = r.model
          /\ last' = Call("fit", r.error, last.arg, FALSE, r.calls)
          /\ fitted' = IF r.error = "none" THEN "fit" ELSE fitted

SplitNext == SplitFit

SplitSpec == SplitInit /\ [][SplitNext]_vars

(* ------- feature expressions with missing values and duplicates ------ *)

\* expression lists with an expression that can evaluate to a missing value,
\* and with a repeated expression
FeatureSpecExprLists ==
    {<<"a">>, <<"sqrt(a - 3)">>, <<"a", "sqrt(a - 3)">>, <<"sqrt(a - 3)", "a">>,
     <<"a", "a">>}

\* unfit models whose fit takes the single-fold path
FeatureModels ==
    {NewPresentationModel(<<Template(t)>>, fe, None).model :
        t \in {"A", "C"}, fe \in FeatureSpecExprLists}

FeatureHitsTables == {h \in HitsTables : h.columns = RequiredHitsColumns}

\* the record of a call and of what the feature evaluation under it returned
FeatureCall(op, error, arg, result) ==
    [op |-> op, outcome |-> Outcome(error), arg |-> arg, result |-> result,
     warned |-> FALSE, calls |-> NoCalls]

\* a constructed model and the hits table about to be used
FeatureInit ==
    /\ pm \in FeatureModels
    /\ \E hits_df \in FeatureHitsTables :
          last = FeatureCall("none", "none", Some(hits_df), None)
    /\ fitted = "no"

\* pm.fit(hits_df) on the single-fold path; result is what its call of
\* fit_final_predictor came to
FeatureFit ==
    /\ last.op = "none"
    /\ LET r == fit(pm, last.arg[1], {}) IN
       /\ pm' = r.model
       /\ last' = FeatureCall("fit", r.error, last.arg,
                              Some(fit_final_predictor(pm, last.arg[1].rows,
                                                       pm.component_models)))
       /\ fitted' = IF r.error = "none" THEN "fit" ELSE fitted

\* pm.evaluate_expressions(hits_and_decoys_df), the table carrying the
\* columns the component models predict
FeatureEvaluate ==
    /\ last.op = "none"
    /\ LET r == evaluate_expressions(
                    pm.feature_expressions,
                    PredictedColumns(pm.component_models, 1),
                    pm.component_models,
                    make_hits_and_decoys_df(last.arg[1].rows).rows) IN
       last' = FeatureCall("evaluate_expressions", r.error, last.arg, Some(r))
    /\ UNCHANGED <<pm, fitted>>

FeatureNext == FeatureFit \/ FeatureEvaluate

FeatureSpec == FeatureInit /\ [][FeatureNext]_vars

(* ------------------------------- claims ------------------------------- *)

QueryOps ==
    {"predict", "predict_to_df", "score_from_peptides_df",
     "score_from_hits_and_decoy_strategy", "get_fit"}

\* two models of the list declare a common column name
Overlap(c) ==
    \E i, j \in 1..Len(c) :
        i < j /\ column_names(c[i].tmpl) \cap column_names(c[j].tmpl) # {}

\* the fold count the claims expect: 2 if some component model requires
\* fitting, otherwise 1
ClaimedFolds(m) ==
    IF \E k \in 1..Len(m.component_models) :
          requires_fitting(m.component_models[k].tmpl)
    THEN 2 ELSE 1

\* C1: constructing a PresentationModel fails with an assertion error, leaving
\* no instance and having fit nothing, exactly when two component models of
\* the list declare a common column name; otherwise it succeeds.
C1_ConstructorRejectsOverlap ==
    last.op = "__init__" =>
        IF Overlap(last.arg[1])
        THEN /\ last.outcome = "AssertionError"
             /\ pm = NoModel
             /\ last.calls = NoCalls
             /\ fitted = "no"
        ELSE /\ last.outcome = "ok"
             /\ pm.constructed
             /\ pm.component_models = last.arg[1]
             /\ ~has_been_fit(pm)

\* two different component models with a common column were rejected
C1_Witness ==
    /\ last.op = "__init__"
    /\ last.outcome = "AssertionError"
    /\ Len(last.arg[1]) = 2
    /\ last.arg[1][1].tmpl # last.arg[1][2].tmpl

\* what a rejected call looks like from the model m
Rejected(r, m) == r.error # "none" /\ r.model = m

\* C2: once a fit or a restore_fit has succeeded, every later fit and
\* restore_fit, whatever its argument, fails and leaves the stored
\* experiments, component-model sets and predictors as they were, and
\* has_been_fit never returns to false.
C2_FitStateWriteOnce ==
    /\ [](fitted # "no" =>
            /\ has_been_fit(pm)
            /\ \A h \in HitsTables : \A S \in SUBSET (1..Len(h.rows)) :
                  Rejected(fit(pm, h, S), pm)
            /\ \A a \in Artifacts, u \in BOOLEAN :
                  Rejected(restore_fit(pm, a, u), pm))
    /\ [][/\ has_been_fit(pm) => has_been_fit(pm')
          /\ fitted # "no" =>
                /\ fitted' # "no"
                /\ last'.op \in {"fit", "restore_fit"} =>
                      /\ last'.outcome # "ok"
                      /\ pm'.fit_experiments = pm.fit_experiments
                      /\ pm'.trained_component_models = pm.trained_component_models
                      /\ pm'.presentation_models_predictors
                            = pm.presentation_models_predictors]_vars

\* a model fit by restore_fit has rejected a later call of fit
C2_Witness ==
    /\ fitted = "restore_fit"
    /\ last.op = "fit"
    /\ last.outcome = "AssertionError"

\* C3 (as claimed): on a model that no fit and no restore_fit has completed
\* on, every query operation fails and never returns a value.
C3_QueriesFailBeforeFit ==
    (fitted = "no" /\ last.op \in QueryOps) => last.outcome # "ok"

\* C4 (as claimed): whenever has_been_fit is true the model holds a list of
\* trained component-model sets and a list of predictors of equal length, 1
\* if no component model requires fitting and 2 if some does.
C4_FitStateShape ==
    has_been_fit(pm) =>
        /\ pm.trained_component_models # None
        /\ pm.presentation_models_predictors # None
        /\ Len(pm.trained_component_models[1])
              = Len(pm.presentation_models_predictors[1])
        /\ Len(pm.trained_component_models[1]) = ClaimedFolds(pm)

\* C5 (as claimed): fit on an unfit model with a component model that
\* requires fitting and an ensemble size configured fails with a
\* not-implemented error at once: nothing is cloned or fit, the decoy
\* strategy is not called.
C5_EnsemblePathRaises ==
    (/\ last.op = "fit"
     /\ last.arg # None
     /\ RequiredHitsColumns \subseteq last.arg[1].columns
     /\ ClaimedFolds(pm) = 2
     /\ pm.ensemble_size # None)
    => (last.outcome = "NotImplementedError" /\ last.calls = NoCalls)

\* C6: in a two-fold fit the hit rows given to clone_and_fit in a fold are
\* disjoint from the hit rows the fold's hits-and-decoys table is built from,
\* the training rows of one fold are the evaluation rows of the other, and
\* the two evaluation sets are disjoint and cover every hit row.
C6_NoLeakage ==
    (last.op = "fit" /\ last.calls.clone_and_fit # <<>>) =>
        LET cf == last.calls.clone_and_fit
            dc == last.calls.decoys
        IN  /\ \A i \in 1..Len(cf), j \in 1..Len(dc) :
                  IF cf[i].fold = dc[j].fold
                  THEN cf[i].rows \cap dc[j].rows = {}
                  ELSE cf[i].rows = dc[j].rows
            /\ last.outcome = "ok" =>
                  /\ Len(dc) = 2
                  /\ dc[1].rows \cap dc[2].rows = {}
                  /\ dc[1].rows \cup dc[2].rows = 1..Len(last.arg[1].rows)

\* a two-fold fit of three hit rows has completed
C6_Witness ==
    /\ last.op = "fit"
    /\ last.outcome = "ok"
    /\ Len(last.calls.decoys) = 2
    /\ Len(last.calls.clone_and_fit) >= 2
    /\ Len(last.arg[1].rows) = 3

\* the value of column c of `row` from the component model of cms declaring c
OwnerValue(cms, row, c) ==
    LET k == CHOOSE k \in 1..Len(cms) : c \in column_names(cms[k].tmpl)
    IN  component_predict(cms[k], row)[c]

\* the output of stored predictor k on the features its own component models
\* give for `row`
PairOutput(m, k, row) ==
    predict_proba(
        m.presentation_models_predictors[1][k],
        [j \in 1..Len(m.feature_expressions) |->
            OwnerValue(m.trained_component_models[1][k], row,
                       m.feature_expressions[j])])

\* C7: whenever predict returns, its value is row by row the output of the
\* stored predictor when one pair is stored, and the mean of the two stored
\* predictors' outputs when two are, predictor i applied to the features of
\* the component models of pair i.
C7_PredictIsMeanOfPairs ==
    pm.constructed =>
        \A X \in PeptidesTables :
            LET r == predict(pm, X)
                n == Len(pm.presentation_models_predictors[1])
            IN  r.error = "none" =>
                    /\ Len(r.value) = Len(X.rows)
                    /\ n \in {1, 2}
                    /\ \A i \in 1..Len(X.rows) :
                          IF n = 1
                          THEN r.value[i] = PairOutput(pm, 1, X.rows[i])
                          ELSE 2 * r.value[i] = PairOutput(pm, 1, X.rows[i])
                                                + PairOutput(pm, 2, X.rows[i])

\* predict has returned on a model whose two stored predictors disagree
C7_Witness ==
    /\ last.op = "predict"
    /\ last.outcome = "ok"
    /\ Len(pm.presentation_models_predictors[1]) = 2
    /\ \E X \in PeptidesTables :
          /\ predict(pm, X).error = "none"
          /\ PairOutput(pm, 1, X.rows[1]) # PairOutput(pm, 2, X.rows[1])

\* the donors on which fit completed
SuccessfulDonors == {d \in DonorModels : d.decoy_strategy = None}

SameConfiguration(a, b) ==
    /\ a.component_models = b.component_models
    /\ a.feature_expressions = b.feature_expressions
    /\ a.ensemble_size = b.ensemble_size

\* per fold, the (component model, fit) pairs a model holds
StoredFits(m) ==
    [k \in 1..Len(m.trained_component_models[1]) |->
        [i \in 1..Len(m.trained_component_models[1][k]) |->
            [tmpl |-> m.trained_component_models[1][k][i].tmpl,
             fit |-> m.trained_component_models[1][k][i].fit]]]

\* the unfit model pm was restored from the artifact of the donor M, of the
\* same configuration
RestoredFrom(M) ==
    /\ last.op = "restore_fit"
    /\ last.arg # None
    /\ ~last.arg[1].unhandled
    /\ SameConfiguration(M, pm)
    /\ get_fit(M).value = Some(last.arg[1].fit)

\* C8: restore_fit(get_fit(M)) on an unfit model of M's configuration, M a
\* model on which fit completed, succeeds and leaves the same number of
\* pairs, the same fit_experiments, component fits and predictors as M's, and
\* the same predictions as M's on every input.
C8_RoundTrip ==
    \A M \in SuccessfulDonors :
        RestoredFrom(M) =>
            /\ last.outcome = "ok"
            /\ fitted = "restore_fit"
            /\ Len(pm.trained_component_models[1]) = Len(M.trained_component_models[1])
            /\ Len(pm.presentation_models_predictors[1])
                  = Len(M.presentation_models_predictors[1])
            /\ pm.fit_experiments = M.fit_experiments
            /\ StoredFits(pm) = StoredFits(M)
            /\ pm.presentation_models_predictors = M.presentation_models_predictors
            /\ \A X \in PeptidesTables : predict(pm, X) = predict(M, X)

\* a two-fold fit was restored, and it predicts
C8_Witness ==
    \E M \in SuccessfulDonors :
        /\ RestoredFrom(M)
        /\ Len(M.presentation_models_predictors[1]) = 2
        /\ \E X \in PeptidesTables : predict(pm, X).error = "none"

\* C9: restore_fit on an unfit model fails when the artifact's number of
\* folds is not the number the instance expects.
C9_FoldCountMismatchFails ==
    (/\ last.op = "restore_fit"
     /\ last.arg # None
     /\ Len(last.arg[1].fit.trained_component_model_fits) # ClaimedFolds(pm))
    => last.outcome = "AssertionError"

\* an artifact of one fold was refused by a model expecting two
C9_Witness ==
    /\ last.op = "restore_fit"
    /\ last.arg # None
    /\ ~last.arg[1].unhandled
    /\ Len(last.arg[1].fit.trained_component_model_fits) = 1
    /\ ClaimedFolds(pm) = 2
    /\ last.outcome = "AssertionError"

\* C10: restore_fit on an unfit model, of an artifact with the expected fold
\* count whose feature expressions differ from the instance's, does not fail:
\* it warns, the model is fit afterwards, and the instance keeps its own
\* feature expressions.
C10_ExpressionMismatchWarns ==
    [][(/\ ~has_been_fit(pm)
        /\ last'.op = "restore_fit"
        /\ last'.arg # None
        /\ ~last'.arg[1].unhandled
        /\ Len(last'.arg[1].fit.trained_component_model_fits) = ClaimedFolds(pm)
        /\ last'.arg[1].fit.feature_expressions # pm.feature_expressions)
       => (/\ last'.outcome = "ok"
           /\ last'.warned
           /\ has_been_fit(pm')
           /\ pm'.trained_component_models # None
           /\ pm'.feature_expressions = pm.feature_expressions)]_vars

\* a restore with other feature expressions than the instance's has completed
C10_Witness ==
    /\ last.op = "restore_fit"
    /\ last.outcome = "ok"
    /\ last.warned
    /\ last.arg[1].fit.feature_expressions # pm.feature_expressions
    /\ fitted = "restore_fit"

\* the permutations of 1..n
Perms(n) == {f \in [1..n -> 1..n] : \A i, j \in 1..n : i # j => f[i] # f[j]}

\* twice the rank the claims give row i: its position when the rows are
\* listed by descending prediction, rows of equal prediction sharing the mean
\* of the positions they occupy
ClaimedRank2(prediction, i) ==
    LET n == Len(prediction)
        order == CHOOSE f \in Perms(n) :
                    \A a, b \in 1..n : a < b => prediction[f[a]] >= prediction[f[b]]
        tied == {j \in 1..n : prediction[j] = prediction[i]}
        positions == {a \in 1..n : order[a] \in tied}
        RECURSIVE Sum(_)
        Sum(S) == IF S = {} THEN 0
                  ELSE LET x == CHOOSE x \in S : TRUE IN x + Sum(S \ {x})
    IN  (2 * Sum(positions)) \div Cardinality(positions)

\* the last call scored a labelled table on the fit model pm, with hit indices
ScoredWithIndices ==
    /\ last.op = "score_from_peptides_df"
    /\ last.outcome = "ok"
    /\ last.arg[1].include_hit_indices

C12_ScoreInUnitInterval ==
    (last.op = "score_from_peptides_df" /\ last.outcome = "ok") =>
        LET v == last.value[1] IN
        /\ ~v.score.nan
        /\ v.score.den > 0
        /\ 0 <= v.score.num
        /\ v.score.num <= v.score.den
        /\ last.arg[1].include_hit_indices =>
              v.total_peptides = Len(last.arg[1].peptides_df.rows)

\* C19 (as claimed): on a fit model and a labelled table with at least one
\* hit, score_from_peptides_df returns the same score with
\* include_hit_indices=False as with include_hit_indices=True, ties among the
\* predictions included.
C19_ScoringModesAgree ==
    (/\ last.op = "score_from_peptides_df"
     /\ last.outcome = "ok"
     /\ \E i \in 1..Len(last.arg[1].peptides_df.rows) :
           last.arg[1].peptides_df.rows[i].hit = 1)
    => LET other == score_from_peptides_df(pm, last.arg[1].peptides_df,
                                           ~last.arg[1].include_hit_indices)
           v == last.value[1]
       IN  /\ other.error = "none"
           /\ ~v.score.nan
           /\ ~other.value.score.nan
           /\ v.score.num * other.value.score.den
                 = other.value.score.num * v.score.den

\* C13 (as claimed): on a hits table with at least 2 distinct experiment
\* names and at least 4 rows, the stratified split of a two-fold fit does not
\* fail and gives two folds that are both non-empty.
C13_FoldsNonEmpty ==
    (/\ last.op = "fit"
     /\ Len(last.arg[1].rows) >= 4
     /\ Cardinality(ExperimentsOf(last.arg[1].rows)) >= 2)
    => /\ last.outcome = "ok"
       /\ Len(last.calls.decoys) = 2
       /\ \A k \in 1..2 : last.calls.decoys[k].rows # {}
       /\ \A k \in 1..Len(last.calls.clone_and_fit) :
             last.calls.clone_and_fit[k].rows # {}

\* the hits-and-decoys table of the last call
FeatureTable == make_hits_and_decoys_df(last.arg[1].rows).rows

\* the rows of the table for which some feature expression of pm evaluates
\* to a missing value
NullRows ==
    {i \in 1..Len(FeatureTable) :
        \E k \in 1..Len(pm.feature_expressions) :
            ExprSeries(pm.feature_expressions[k], pm.component_models,
                       FeatureTable)[i] = Null}

\* C14 (as claimed): when a feature expression evaluates to a missing value
\* for exactly one row of the N-row hits-and-decoys table during fitting, the
\* fit does not abort, the row is dropped with a warning and the final
\* predictor is fit on N-1 rows.
C14_NullRowDropped ==
    (last.op = "fit" /\ Cardinality(NullRows) = 1) =>
        /\ last.outcome = "ok"
        /\ last.result[1].error = "none"
        /\ last.result[1].warned
        /\ last.result[1].rows = Len(FeatureTable) - 1

\* C15 (as claimed): evaluating E feature expressions on a table of N rows
\* yields N rows of exactly E columns without a missing value, and fails with
\* an error naming the offending expression when an expression's output
\* contains a missing value.
C15_OneColumnPerExpression ==
    last.op = "evaluate_expressions" =>
        LET r == last.result[1]
            E == Len(pm.feature_expressions)
            N == Len(FeatureTable)
        IN  IF NullRows = {}
            THEN /\ r.error = "none"
                 /\ Len(r.x) = N
                 /\ \A i \in 1..N :
                       /\ Len(r.x[i]) = E
                       /\ \A j \in 1..Len(r.x[i]) : r.x[i][j] # Null
            ELSE /\ r.error = "AssertionError"
                 /\ r.expression # None
                 /\ ~assert_no_null(ExprSeries(r.expression[1],
                                               pm.component_models, FeatureTable))

\* C16: a constructed model on which no fit has completed holds the
\* configured decoy strategy; a fit that completes has called it exactly once
\* on the single-fold path and exactly once per fold, twice, on the two-fold
\* path; and once a fit has completed the model's decoy strategy is None.
C16_DecoyStrategyConsumed ==
    /\ (pm.constructed /\ fitted # "fit") =>
          pm.decoy_strategy = Some("decoy_strategy")
    /\ fitted = "fit" => pm.decoy_strategy = None
    /\ (last.op = "fit" /\ last.outcome = "ok") =>
          /\ Len(last.calls.decoys) = ClaimedFolds(pm)
          /\ \A k \in 1..Len(last.calls.decoys) : last.calls.decoys[k].fold = k

\* a two-fold fit has completed, after two calls of the decoy strategy
C16_Witness ==
    /\ last.op = "fit"
    /\ last.outcome = "ok"
    /\ Len(last.calls.decoys) = 2
    /\ pm.decoy_strategy = None

\* C17 (as claimed): a fit or restore_fit on an unfit model that ends in an
\* error leaves the model unfit: has_been_fit stays false and a later
\* restore_fit with a valid artifact can still succeed.
C17_FailureAtomicity ==
    (/\ last.op \in {"fit", "restore_fit"}
     /\ last.arg # None
     /\ last.outcome # "ok")
    => /\ ~has_been_fit(pm)
       /\ \E a \in Artifacts : restore_fit(pm, a, FALSE).error = "none"

====
